---- MODULE Spec2Model ----
(***************************************************************************)
(* VibeList backend (backend/spotify_client.py, backend/main.py).          *)
(*                                                                         *)
(* The model follows the candidate-selection pipeline recommend_tracks,    *)
(* the genre normalizer it rests on, and the genre-hero resolver.          *)
(*                                                                         *)
(* Text is modelled at the character level where the code looks at         *)
(* characters: an input string is a sequence of one-character strings,     *)
(* and a token (a genre name) is a TLA+ string built by concatenating the  *)
(* characters the tokenizer keeps.                                         *)
(***************************************************************************)
EXTENDS Integers, Sequences, FiniteSets, TLC

VARIABLES
    cache,      \* _ALLOWED_GENRES_CACHE
    \* ---- normalize_genres_for_debug driver
    npc,        \* position of the normalizer driver: "off", "start", "once", "twice"
    nInput,     \* the genre input handed to _normalize_genre_list
    nAllowed,   \* the vocabulary in effect for the first call
    nOut,       \* result of _normalize_genre_list(nInput)
    nOut2,      \* result of _normalize_genre_list(nOut)
    \* ---- recommend_tracks
    pc,              \* position inside recommend_tracks
    n,               \* requested count
    user_artist_ids, \* params["user_artist_ids"]
    raw_genres,      \* params user_genres / genre_candidates / genres
    tempo_bpm,       \* params["tempo_bpm"]
    candidates,      \* normalized genre candidates
    seed_artists,
    seed_genres,
    seeds,           \* the seeds dict: [seed_artists, seed_genres]
    seed_tracks,     \* kwargs["seed_tracks"], <<>> when the key is absent
    ok,              \* result of the last _add_from_recs
    bag,             \* the pool; seen is its set of elements
    qi,              \* index of the next artist of the quota loop
    filtered,        \* the local variable filtered: unbound until assigned
    result,          \* the returned list
    lastCall,        \* the track-listing call of the latest step (recommendations,
                     \* top tracks, text search, audio features), or none
    \* ---- get_genre_hero
    heroCache,       \* _GENRE_HERO_CACHE
    hero_genre,      \* g of the call in progress
    hero,            \* what the latest get_genre_hero returned
    \* ---- history of the quota loop (recorded under SpecArtists only)
    lookups,         \* one entry per artist_top_tracks call of the invocation
    \* ---- _audio_feature_filter applied to one pool, stage by stage
    fpc,             \* "off", "start", "stage0", "stage1", "stage2"
    fPool,           \* the pool: a list of candidates
    fTempo,          \* params["tempo_bpm"]
    fAns0,           \* answers of sp.tracks / sp.audio_features to the stage-0 call
    fAns1,           \* answers to the stage-1 call
    fOut0,           \* positions of the pool kept by the filter with the caller's params
    fOut1,           \* positions kept by the re-run with vocals not required
    fOut2,           \* positions kept by the last resort
    \* ---- _allowed_genres called from several request threads
    vpc,             \* per thread: "off", "idle", "fetch", "write"
    vseeds,          \* per thread: the answer of the genre-seed endpoint it holds
    vret,            \* per thread: what its latest _allowed_genres returned
    \* ---- get_genre_hero called from request threads, its lookups recorded
    hpc,             \* per thread: "off", "idle", "canon", "search", "recs", "raised"
    harg,            \* per thread: the genre argument of its latest call
    hret,            \* per thread: what its latest call returned
    hcalls,          \* per thread: the lookup steps of its latest call, in order
    \* ---- playlist_create
    ppc,             \* "off", "idle", "recommend", "add", "lookup", "done"
    created,         \* create_playlist has returned a playlist id in this request
    added,           \* add_tracks has returned in this request
    http,            \* status of the response: 0 while there is none
    \* ---- the targets of the recommendations request
    kpc,             \* "off", "jitter", "done", "tempo", "sent"
    kCenter,         \* a center in thousandths, or -1 for None
    kSpread,         \* the spread in thousandths
    kTempo,          \* params["tempo_bpm"]
    kOut,            \* what the jitter function returned, in thousandths, -1 for None
    kTargetTempo     \* kwargs["target_tempo"]

ndrv     == <<npc, nInput, nAllowed, nOut, nOut2>>
inputs   == <<n, user_artist_ids, raw_genres, tempo_bpm>>
seedvars == <<candidates, seed_artists, seed_genres, seeds, seed_tracks>>
hvars    == <<heroCache, hero_genre, hero>>
pvars    == <<pc, inputs, seedvars, ok, bag, qi, filtered, result, lastCall, hvars>>
rvars    == <<pc, inputs, seedvars, ok, bag, qi, filtered, result, lastCall>>

fvars    == <<fpc, fPool, fTempo, fAns0, fAns1, fOut0, fOut1, fOut2>>
vvars    == <<vpc, vseeds, vret>>
gvars    == <<hpc, harg, hret, hcalls>>
plvars   == <<ppc, created, added, http>>
kvars    == <<kpc, kCenter, kSpread, kTempo, kOut, kTargetTempo>>
xvars    == <<vvars, gvars, plvars, kvars>>
aux      == <<lookups, fvars, xvars>>

vars == <<cache, ndrv, pvars, aux>>

(***************************************************************************)
(* Bounds of the model.                                                    *)
(***************************************************************************)
MaxGenreItems == 2      \* longest list of genre strings handed to the normalizer
MaxN == 3               \* largest requested count
MaxArtistIds == 4       \* most artist ids a caller supplies
NumTracks == 2          \* size of the catalogue of tracks

(***************************************************************************)
(* Sequence helpers.                                                       *)
(***************************************************************************)
Range(s) == {s[i] : i \in 1..Len(s)}

NoDup(s) == \A i, j \in 1..Len(s) : i # j => s[i] # s[j]

\* Python's s[:k] for k >= 0.
Take(s, k) == SubSeq(s, 1, IF k < Len(s) THEN k ELSE Len(s))

\* [x for x in s if x in keep]
RECURSIVE FilterIn(_, _)
FilterIn(s, keep) ==
    IF s = <<>> THEN <<>>
    ELSE (IF Head(s) \in keep THEN <<Head(s)>> ELSE <<>>) \o FilterIn(Tail(s), keep)

SeqsUpTo(S, k) == UNION {[1..m -> S] : m \in 0..k}

(***************************************************************************)
(* Characters.                                                             *)
(***************************************************************************)
LowerLetters ==
    <<"a","b","c","d","e","f","g","h","i","j","k","l","m",
      "n","o","p","q","r","s","t","u","v","w","x","y","z">>

UpperLetters ==
    <<"A","B","C","D","E","F","G","H","I","J","K","L","M",
      "N","O","P","Q","R","S","T","U","V","W","X","Y","Z">>

\* str.lower() on one character
LowerChar(c) ==
    IF \E i \in 1..Len(UpperLetters) : UpperLetters[i] = c
    THEN LowerLetters[CHOOSE i \in 1..Len(UpperLetters) : UpperLetters[i] = c]
    ELSE c

\* the character class [a-z\-] of the tokenizer's regular expression
IsTokenChar(c) == c \in Range(LowerLetters) \cup {"-"}

(***************************************************************************)
(* The genre vocabulary.                                                   *)
(***************************************************************************)
DEFAULT_SEED_GENRES ==
    {"pop", "dance-pop", "edm", "house", "hip-hop", "r-n-b",
     "indie-pop", "alt-rock", "trap", "electronic", "chill",
     "ambient", "dancehall", "reggaeton", "funk", "soul"}

\* What the external genre-seed endpoint may answer: it raises (ok = FALSE), or
\* it returns a list of genres (given here as a set; the code makes a set of it).
GenreSeedResponses ==
    { [ok |-> FALSE, genres |-> {}],
      [ok |-> TRUE,  genres |-> {}],
      [ok |-> TRUE,  genres |-> {"chillhop", "hip-hop", "pop"}],
      [ok |-> TRUE,  genres |-> {"rock", "jazz"}],
      [ok |-> TRUE,  genres |-> {"pop", "rock"}],
      [ok |-> TRUE,  genres |-> {"alternative", "club", "dance", "dance-pop", "edm",
                                 "electro", "funk", "hip-hop", "house", "indie-pop",
                                 "party", "pop", "reggae", "soul", "trap"}] }

\* _ALLOWED_GENRES_CACHE is None, or a set of genre names
NoCache   == [populated |-> FALSE, genres |-> {}]
Cached(g) == [populated |-> TRUE,  genres |-> g]

\* "if _ALLOWED_GENRES_CACHE:"
CacheTruthy(c) == c.populated /\ c.genres # {}

\* _allowed_genres: the vocabulary returned and the cache it leaves behind,
\* for a cache state c and the answer resp the endpoint would give.
_allowed_genres(c, resp) ==
    IF CacheTruthy(c) THEN [ret |-> c.genres, cache |-> c]
    ELSE IF resp.ok /\ resp.genres # {}
         THEN [ret |-> resp.genres, cache |-> Cached(resp.genres)]
         ELSE [ret |-> DEFAULT_SEED_GENRES, cache |-> Cached(DEFAULT_SEED_GENRES)]

(***************************************************************************)
(* Tokenizer: re.split(r"[^a-z\-]+", s.lower()) without the empty pieces.  *)
(***************************************************************************)
RECURSIVE SplitFrom(_, _, _)
SplitFrom(chars, cur, acc) ==
    IF chars = <<>>
    THEN IF cur = "" THEN acc ELSE Append(acc, cur)
    ELSE LET c == LowerChar(Head(chars)) IN
         IF IsTokenChar(c)
         THEN SplitFrom(Tail(chars), cur \o c, acc)
         ELSE SplitFrom(Tail(chars), "", IF cur = "" THEN acc ELSE Append(acc, cur))

_split_tokens(s) == SplitFrom(s, "", <<>>)

(***************************************************************************)
(* Genre normalizer.                                                       *)
(***************************************************************************)
synonyms ==
    ("lofi" :> "chillhop") @@ ("lo-fi" :> "chillhop") @@
    ("hiphop" :> "hip-hop") @@ ("hip-hop" :> "hip-hop") @@
    ("rnb" :> "r-n-b") @@ ("r&b" :> "r-n-b") @@
    ("indiepop" :> "indie-pop") @@ ("alt" :> "alternative") @@
    ("altrock" :> "alt-rock") @@ ("electro" :> "electronic") @@
    ("dance" :> "dance-pop") @@ ("party" :> "dance-pop") @@
    ("workout" :> "edm") @@ ("club" :> "house") @@
    ("reggae" :> "dancehall")

Synonym(t) == IF t \in DOMAIN synonyms THEN synonyms[t] ELSE t

NormalizeDefaults == <<"dance-pop", "edm", "hip-hop", "indie-pop", "pop", "house", "trap">>

\* A genre input is a string, a list whose items are strings or not, or another value.
StrInput(chars)  == [kind |-> "str",  chars |-> chars, items |-> <<>>]
ListInput(items) == [kind |-> "list", chars |-> <<>>,  items |-> items]
OtherInput       == [kind |-> "other", chars |-> <<>>, items |-> <<>>]
StrItem(chars)   == [isStr |-> TRUE,  chars |-> chars]
NonStrItem       == [isStr |-> FALSE, chars |-> <<>>]

RECURSIVE ItemTokens(_)
ItemTokens(items) ==
    IF items = <<>> THEN <<>>
    ELSE (IF Head(items).isStr THEN _split_tokens(Head(items).chars) ELSE <<>>)
         \o ItemTokens(Tail(items))

InputTokens(genres) ==
    IF genres.kind = "str" THEN _split_tokens(genres.chars)
    ELSE IF genres.kind = "list" THEN ItemTokens(genres.items)
    ELSE <<>>

\* the loop over tokens: synonym folding, then first-seen de-duplication
RECURSIVE Cleaned(_, _)
Cleaned(tokens, acc) ==
    IF tokens = <<>> THEN acc
    ELSE LET t == Synonym(Head(tokens)) IN
         Cleaned(Tail(tokens), IF t # "" /\ t \notin Range(acc) THEN Append(acc, t) ELSE acc)

NormalizeDefaultsUnchecked(allowed, genres) ==
    LET valid == FilterIn(Cleaned(InputTokens(genres), <<>>), allowed) IN
    IF valid = <<>> THEN Take(NormalizeDefaults, 5) ELSE Take(valid, 5)

NormalizeUncapped(allowed, genres) ==
    LET valid == FilterIn(Cleaned(InputTokens(genres), <<>>), allowed) IN
    IF valid = <<>> THEN Take(FilterIn(NormalizeDefaults, allowed), 5) ELSE valid

NormalizeNoFallback(allowed, genres) ==
    Take(FilterIn(Cleaned(InputTokens(genres), <<>>), allowed), 5)

\* allowed = _allowed_genres(sp) or DEFAULT_SEED_GENRES
AllowedOrDefault(a) == IF a = {} THEN DEFAULT_SEED_GENRES ELSE a

_normalize_genre_list(allowed, genres) ==
    LET valid == FilterIn(Cleaned(InputTokens(genres), <<>>), allowed) IN
    IF valid = <<>>
    THEN Take(Take(FilterIn(NormalizeDefaults, allowed), 5), 5)
    ELSE Take(valid, 5)

(***************************************************************************)
(* Genre inputs of the model.                                              *)
(***************************************************************************)
S_lofi   == <<"l","o","-","f","i">>                     \* "lo-fi"
S_HipHop == <<"H","i","p"," ","H","o","p","!","!">>     \* "Hip Hop!!"
S_pop    == <<"p","o","p">>                             \* "pop"
S_rnb    == <<"r","&","b">>                             \* "r&b"
S_Rock   == <<"R","o","c","k">>                         \* "Rock"
S_party  == <<"p","a","r","t","y">>                     \* "party"
S_xyz    == <<"x","y","z">>                             \* "xyz"
S_empty  == <<>>                                        \* ""
S_dance  == <<"d","a","n","c","e">>                     \* "dance"
\* "pop,edm house;trap funk soul"
S_many   == <<"p","o","p",",","e","d","m"," ","h","o","u","s","e",";",
              "t","r","a","p"," ","f","u","n","k"," ","s","o","u","l">>

GenreStrings ==
    {S_lofi, S_HipHop, S_pop, S_rnb, S_Rock, S_party, S_xyz, S_empty, S_dance, S_many}

GenreItems == {StrItem(s) : s \in GenreStrings} \cup {NonStrItem}

GenreInputs ==
    {StrInput(s) : s \in GenreStrings}
    \cup {ListInput(l) : l \in SeqsUpTo(GenreItems, MaxGenreItems)}
    \cup {OtherInput}

\* The spelling of every genre name of the model, to hand a genre name back
\* to the normalizer as an input string.
Spellings ==
    { <<"a","l","t","-","r","o","c","k">>,
      <<"a","l","t","e","r","n","a","t","i","v","e">>,
      <<"a","m","b","i","e","n","t">>,
      <<"c","h","i","l","l">>,
      <<"c","h","i","l","l","h","o","p">>,
      <<"c","l","u","b">>,
      <<"d","a","n","c","e">>,
      <<"d","a","n","c","e","-","p","o","p">>,
      <<"d","a","n","c","e","h","a","l","l">>,
      <<"e","d","m">>,
      <<"e","l","e","c","t","r","o">>,
      <<"e","l","e","c","t","r","o","n","i","c">>,
      <<"f","u","n","k">>,
      <<"h","i","p","-","h","o","p">>,
      <<"h","o","u","s","e">>,
      <<"i","n","d","i","e","-","p","o","p">>,
      <<"j","a","z","z">>,
      <<"p","a","r","t","y">>,
      <<"p","o","p">>,
      <<"r","-","n","-","b">>,
      <<"r","e","g","g","a","e">>,
      <<"r","e","g","g","a","e","t","o","n">>,
      <<"r","o","c","k">>,
      <<"s","o","u","l">>,
      <<"t","r","a","p">> }

RECURSIVE Join(_)
Join(chars) == IF chars = <<>> THEN "" ELSE Head(chars) \o Join(Tail(chars))

Chars(g) == CHOOSE s \in Spellings : Join(s) = g

\* a list of genre names as a list input
AsListInput(names) == ListInput([i \in 1..Len(names) |-> StrItem(Chars(names[i]))])

(***************************************************************************)
(* recommend_tracks: inputs and external answers.                          *)
(***************************************************************************)
Max(a, b) == IF a >= b THEN a ELSE b
Min(a, b) == IF a <= b THEN a ELSE b

\* the catalogue: a track stands for its URI
Tracks == 1..NumTracks

RECURSIVE Ascending(_)
Ascending(S) ==
    IF S = {} THEN <<>>
    ELSE LET x == CHOOSE y \in S : \A z \in S : y <= z IN <<x>> \o Ascending(S \ {x})

\* the track lists an external answer may carry: any part of the catalogue
TrackLists == {Ascending(S) : S \in SUBSET Tracks}

\* an external call that returns tracks: it raises (ok = FALSE) or answers a list
ListResponses ==
    {[ok |-> FALSE, tracks |-> <<>>]} \cup {[ok |-> TRUE, tracks |-> l] : l \in TrackLists}

\* sp.artist(aid): it raises, or answers the artist's declared genres
ArtistResponses ==
    { [ok |-> FALSE, genres |-> <<>>],
      [ok |-> TRUE,  genres |-> <<>>],
      [ok |-> TRUE,  genres |-> <<StrItem(S_Rock)>>],
      [ok |-> TRUE,  genres |-> <<StrItem(S_pop)>>] }

\* what _keywords_to_seed_tracks(max_tracks=2) may return for non-empty keywords
KwSeedLists == {<<>>, <<"kw1">>, <<"kw1", "kw2">>}

\* the answers of the genre-seed endpoint the pipeline is run against
PipelineSeedResponses ==
    { [ok |-> FALSE, genres |-> {}],
      [ok |-> TRUE,  genres |-> {"chillhop", "hip-hop", "pop"}],
      [ok |-> TRUE,  genres |-> {"rock", "jazz"}] }

\* raw_genres of the model
PipelineGenreInputs ==
    { ListInput(<<>>),
      ListInput(<<StrItem(S_lofi), StrItem(S_HipHop)>>),
      ListInput(<<StrItem(S_xyz)>>),
      StrInput(S_many) }

ArtistIdLists == {[i \in 1..k |-> i] : k \in 0..MaxArtistIds}

(***************************************************************************)
(* recommend_tracks: building the seeds.                                   *)
(***************************************************************************)
\* raw genres of the looked-up artists, failures skipped
RECURSIVE ArtistRawGenres(_)
ArtistRawGenres(answers) ==
    IF answers = <<>> THEN <<>>
    ELSE (IF Head(answers).ok THEN Head(answers).genres ELSE <<>>)
         \o ArtistRawGenres(Tail(answers))

\* answers: one answer of sp.artist per artist of artist_ids[:3]
_artist_seed_genres(allowed, answers, limit) ==
    Take(_normalize_genre_list(allowed, ListInput(ArtistRawGenres(answers))), limit)

upbeat_pref == <<"dance-pop", "edm", "house", "pop", "hip-hop">>

\* list(allowed)[0] is read only when no upbeat genre is in the vocabulary
FirstChoices(sa, sg, allowed) ==
    IF sa = <<>> /\ sg = <<>> /\ FilterIn(upbeat_pref, allowed) = <<>> THEN allowed ELSE {""}

SeedGenresUnguarded(sa, sg, allowed, first) == sg

\* "GUARANTEE: at least one valid seed"; first is list(allowed)[0]
GuaranteedSeedGenres(sa, sg, allowed, first) ==
    IF sa = <<>> /\ sg = <<>>
    THEN LET picked == FilterIn(upbeat_pref, allowed) IN
         <<IF picked # <<>> THEN picked[1] ELSE first>>
    ELSE sg

\* the seeds dict; an absent key is the empty list
SeedsDict(sa, sg) ==
    [seed_artists |-> Take(sa, Max(0, 5)),
     seed_genres  |-> IF sg # <<>> /\ Len(sa) < 5 THEN Take(sg, 5 - Len(sa)) ELSE <<>>]

KwSeedTracksNoRoomCheck(sd, kw_seeds, coin) ==
    IF kw_seeds # <<>> /\ coin THEN Take(kw_seeds, 1) ELSE <<>>

\* kwargs["seed_tracks"]; coin is random.random() < 0.6
KwSeedTracks(sd, kw_seeds, coin) ==
    IF kw_seeds # <<>> /\ coin
    THEN LET current_seed_count == Len(sd.seed_artists) + Len(sd.seed_genres)
             room == Max(0, 5 - current_seed_count)
         IN IF room > 0 THEN Take(kw_seeds, 1) ELSE <<>>
    ELSE <<>>

(***************************************************************************)
(* recommend_tracks: the pool.                                             *)
(***************************************************************************)
\* for t in items: if u not in seen: seen.add(u); bag.append(u)
RECURSIVE AddNew(_, _)
AddNew(b, ts) ==
    IF ts = <<>> THEN b
    ELSE AddNew(IF Head(ts) \in Range(b) THEN b ELSE Append(b, Head(ts)), Tail(ts))

\* the same, stopping once left tracks have been taken
RECURSIVE AddNewUncapped(_, _, _)
RECURSIVE AddNewUpTo(_, _, _)
AddNewUncapped(b, ts, left) ==
    IF ts = <<>> THEN b
    ELSE IF Head(ts) \in Range(b) THEN AddNewUncapped(b, Tail(ts), left)
    ELSE AddNewUncapped(Append(b, Head(ts)), Tail(ts), left - 1)

AddNewUpTo(b, ts, left) ==
    IF ts = <<>> \/ left <= 0 THEN b
    ELSE IF Head(ts) \in Range(b) THEN AddNewUpTo(b, Tail(ts), left)
    ELSE AddNewUpTo(Append(b, Head(ts)), Tail(ts), left - 1)

\* the _add_from_recs in effect (the second definition rebinds the name)
_add_from_recs(b, resp) ==
    [ok |-> resp.ok, bag |-> IF resp.ok THEN AddNew(b, resp.tracks) ELSE b]

Outcome(resp) ==
    IF ~resp.ok THEN "error" ELSE IF resp.tracks = <<>> THEN "empty" ELSE "tracks"

\* sp.recommendations(**kwargs) and its outcome; every request of the program
\* passes market
Request(stage, sa, sg, st, targets, resp) ==
    [op |-> "recommendations", stage |-> stage, seed_artists |-> sa, seed_genres |-> sg,
     seed_tracks |-> st, targets |-> targets, market |-> TRUE, outcome |-> Outcome(resp)]

\* another external call, or none (op = "none")
Call(op, outcome) ==
    [op |-> op, stage |-> "", seed_artists |-> <<>>, seed_genres |-> <<>>,
     seed_tracks |-> <<>>, targets |-> FALSE, market |-> FALSE, outcome |-> outcome]

NoCallMade == Call("none", "")

target_totalUncapped(k) == Max(8, (k * 3) \div 5)

target_total(k) == Max(8, Min((k * 3) \div 5, 28))
per_artist(k, artists) == Max(2, target_total(k) \div Max(1, artists))

(***************************************************************************)
(* Content filter.  Feature values in [0,1] are given in hundredths.       *)
(***************************************************************************)
\* params["tempo_bpm"] of the model
TempoInputs == {140}

\* The catalogue repeats four kinds of track (t % 4):
\*   1  instrumental track, 2  sound-effect title ("Rain Sounds"),
\*   3  ordinary song,      0  track without an audio-features entry.

\* _looks_like_sfx on the track's metadata (title and album)
TitleLooksLikeSfx(t) == t % 4 = 2

\* _looks_like_sfx on the track's URI string
UriLooksLikeSfx(t) == FALSE

\* the audio-features entry of a track; present = FALSE is a None entry
Features(t) ==
    CASE t % 4 = 1 -> [present |-> TRUE, duration_ms |-> 240000, speechiness |-> 4,
                       instrumentalness |-> 90, energy |-> 60, tempo |-> 165]
      [] t % 4 = 2 -> [present |-> TRUE, duration_ms |-> 180000, speechiness |-> 3,
                       instrumentalness |-> 20, energy |-> 40, tempo |-> 120]
      [] t % 4 = 3 -> [present |-> TRUE, duration_ms |-> 200000, speechiness |-> 5,
                       instrumentalness |-> 10, energy |-> 70, tempo |-> 140]
      [] OTHER     -> [present |-> FALSE, duration_ms |-> 0, speechiness |-> 0,
                       instrumentalness |-> 0, energy |-> 0, tempo |-> 0]

FeatureExcludesNoSlack(f, vocals_required, target_tempo) ==
    LET tempo_lo == Max(40, target_tempo - 20)
        tempo_hi == Min(220, target_tempo + 20)
    IN /\ f.present
       /\ \/ f.duration_ms >= 10 * 60 * 1000
          \/ f.speechiness >= 66
          \/ vocals_required /\ f.instrumentalness >= 85
          \/ f.energy <= 3
          \/ f.tempo < tempo_lo
          \/ f.tempo > tempo_hi

FeatureExcludesMissingEntry(f, vocals_required, target_tempo) ==
    LET tempo_lo == Max(40, target_tempo - 20)
        tempo_hi == Min(220, target_tempo + 20)
    IN \/ f.duration_ms >= 10 * 60 * 1000
       \/ f.speechiness >= 66
       \/ vocals_required /\ f.instrumentalness >= 85
       \/ f.energy <= 3
       \/ f.tempo < tempo_lo - 8
       \/ f.tempo > tempo_hi + 8

FeatureExcludes(f, vocals_required, target_tempo) ==
    LET tempo_lo == Max(40, target_tempo - 20)
        tempo_hi == Min(220, target_tempo + 20)
    IN /\ f.present
       /\ \/ f.duration_ms >= 10 * 60 * 1000
          \/ f.speechiness >= 66
          \/ vocals_required /\ f.instrumentalness >= 85
          \/ f.energy <= 3
          \/ f.tempo < tempo_lo - 8
          \/ f.tempo > tempo_hi + 8

\* whether sp.tracks and sp.audio_features answered
Answers(metaOk, featsOk) == [metaOk |-> metaOk, featsOk |-> featsOk]
NoAnswers == Answers(FALSE, FALSE)

\* keep_mask[i] at line 314, for a track whose title/album the heuristic judges
\* title_sfx and whose audio-features entry is f
KeptBy(title_sfx, f, vocals_required, target_tempo, ans) ==
    /\ ~(ans.metaOk /\ title_sfx)
    /\ ~(ans.featsOk /\ FeatureExcludes(f, vocals_required, target_tempo))

\* metaOk: sp.tracks answered; featsOk: sp.audio_features answered
_audio_feature_filter(uris, vocals_required, target_tempo, metaOk, featsOk) ==
    IF uris = <<>> THEN uris
    ELSE FilterIn(uris,
           {t \in Range(uris) :
               KeptBy(TitleLooksLikeSfx(t), Features(t), vocals_required, target_tempo,
                      Answers(metaOk, featsOk))})

\* the filter driver is not in use
FilterOff ==
    /\ fpc = "off"
    /\ fPool = <<>>
    /\ fTempo = 100
    /\ fAns0 = NoAnswers
    /\ fAns1 = NoAnswers
    /\ fOut0 = {}
    /\ fOut1 = {}
    /\ fOut2 = {}

\* the local variable filtered
Unbound  == [bound |-> FALSE, val |-> <<>>]
Bound(v) == [bound |-> TRUE,  val |-> v]

\* int(0.6 * n) and int(0.4 * n)
Relax1Threshold(k) == (6 * k) \div 10
Relax2Threshold(k) == (4 * k) \div 10

\* the orders random.shuffle may leave
Perms(s) == {p \in [1..Len(s) -> Range(s)] : Range(p) = Range(s)}

(***************************************************************************)
(* Genre hero: a representative artist for a genre.                        *)
(***************************************************************************)
_CANON ==
    ("pop" :> "06HL4z0CvFAxyc27GXpf02") @@ ("hip-hop" :> "3TVXtAsR1Inumwj472S9r4") @@
    ("r-n-b" :> "1Xyo4u8uXC1ZmMpatF05PJ") @@ ("edm" :> "7CajNmpbOovFoOoasH2HaY") @@
    ("house" :> "1Cs0zKBU1kc0i8ypK3B9h8a") @@ ("dance-pop" :> "66CXWjxzNUsdJxJ2JdwvnR") @@
    ("reggaeton" :> "1vyhD5VmyZ7KMfW5gqLgo5") @@ ("dancehall" :> "2wY79sveU1sp5g7SokKOiI") @@
    ("ambient" :> "2BTZIqw0ntH9MvilQ3ewNY") @@ ("electronic" :> "4tZwfgrHOc3mvqYlEYSvVi") @@
    ("indie-pop" :> "3e7awlrlDSwF3iM0WBjGMp") @@ ("alt-rock" :> "5BvJzeQpmsdsFp4HGUYUEx") @@
    ("soul" :> "3fMbdgg4jU18AjLCKBhRSm") @@ ("funk" :> "7M1FPw29m5FbicYzS2xdpi") @@
    ("trap" :> "1URnnhqYAYcrqrcwql10ft")

\* an artist object (image: it has a first image), or None / an exception
ArtistObj(id, image) == [ok |-> TRUE, id |-> id, image |-> image]
NoArtist == [ok |-> FALSE, id |-> "", image |-> FALSE]

\* what sp.artist(id) may answer
ArtistAnswers(id) == {NoArtist, ArtistObj(id, TRUE), ArtistObj(id, FALSE)}

\* the cached and returned dict; found = FALSE is None
HeroData(a) == [found |-> TRUE, id |-> a.id, image |-> a.image]
NoHero == [found |-> FALSE, id |-> "", image |-> FALSE]

NoHeroes == [g \in {} |-> NoHero]

\* _GENRE_HERO_CACHE[g] = data
CacheHero(c, g, a) == [x \in DOMAIN c \cup {g} |-> IF x = g THEN HeroData(a) ELSE c[x]]

\* str.strip() and str.lower()
IsSpace(c) == c = " "

RECURSIVE LStrip(_)
LStrip(s) == IF s # <<>> /\ IsSpace(Head(s)) THEN LStrip(Tail(s)) ELSE s

RECURSIVE RStrip(_)
RStrip(s) == IF s # <<>> /\ IsSpace(s[Len(s)]) THEN RStrip(SubSeq(s, 1, Len(s) - 1)) ELSE s

RECURSIVE LowerJoin(_)
LowerJoin(s) == IF s = <<>> THEN "" ELSE LowerChar(Head(s)) \o LowerJoin(Tail(s))

\* g = (genre or "").strip().lower()
HeroKey(genre) == LowerJoin(RStrip(LStrip(genre)))

S_PopPadded == <<" ","P","o","p"," ">>                  \* " Pop "
S_blank     == <<" "," ">>                              \* "  "

\* the genre arguments of the model
HeroInputs == {S_PopPadded, S_blank}

\* the artist search: it raises, or answers a list of artists
ArtistSearchResponses ==
    { [ok |-> FALSE, items |-> <<>>],
      [ok |-> TRUE,  items |-> <<>>],
      [ok |-> TRUE,  items |-> <<ArtistObj("A1", FALSE)>>],
      [ok |-> TRUE,  items |-> <<ArtistObj("A1", FALSE), ArtistObj("A1", TRUE)>>] }

\* for a in items: if _first_image_url(a): return a
RECURSIVE FirstWithImage(_)
FirstWithImage(items) ==
    IF items = <<>> THEN NoArtist
    ELSE IF Head(items).image THEN Head(items) ELSE FirstWithImage(Tail(items))

\* the recommendations asked for a genre: a track has a primary artist or none
HeroRecsResponses ==
    { [ok |-> FALSE, tracks |-> <<>>],
      [ok |-> TRUE,  tracks |-> <<>>],
      [ok |-> TRUE,  tracks |-> <<[artists |-> <<>>], [artists |-> <<"A1">>]>>] }

\* looked[i]: what _safe_artist answers for the primary artist of track i
RECURSIVE FirstUsable(_, _)
FirstUsable(tracks, looked) ==
    IF tracks = <<>> THEN NoArtist
    ELSE IF Head(tracks).artists # <<>> /\ Head(looked).ok /\ Head(looked).image
         THEN Head(looked)
         ELSE FirstUsable(Tail(tracks), Tail(looked))

(***************************************************************************)
(* recommend_tracks, step by step.                                         *)
(***************************************************************************)
NormOff ==
    /\ npc = "off"
    /\ nInput = OtherInput
    /\ nAllowed = {}
    /\ nOut = <<>>
    /\ nOut2 = <<>>

LocalsCleared ==
    /\ candidates = <<>>
    /\ seed_artists = <<>>
    /\ seed_genres = <<>>
    /\ seeds = [seed_artists |-> <<>>, seed_genres |-> <<>>]
    /\ seed_tracks = <<>>
    /\ ok = FALSE
    /\ bag = <<>>
    /\ qi = 1
    /\ filtered = Unbound
    /\ result = <<>>
    /\ lastCall = NoCallMade
    /\ hero_genre = ""
    /\ hero = NoHero

\* no call in progress: the parameters hold placeholders
NoCall ==
    /\ n = 1
    /\ user_artist_ids = <<>>
    /\ raw_genres = OtherInput
    /\ tempo_bpm = 100
    /\ LocalsCleared

\* the local variable seeds before the endpoint has answered
NoSeeds == [ok |-> FALSE, genres |-> {}]

\* request threads calling _allowed_genres
NumThreads == 2
Threads == 1..NumThreads

\* no thread is calling _allowed_genres
VocabOff ==
    /\ vpc = [t \in Threads |-> "off"]
    /\ vseeds = [t \in Threads |-> NoSeeds]
    /\ vret = [t \in Threads |-> {}]

\* no thread is calling get_genre_hero with its lookups recorded
HeroThreadsOff ==
    /\ hpc = [t \in Threads |-> "off"]
    /\ harg = [t \in Threads |-> <<>>]
    /\ hret = [t \in Threads |-> NoHero]
    /\ hcalls = [t \in Threads |-> <<>>]

\* playlist_create is not in use
PlaylistOff ==
    /\ ppc = "off"
    /\ created = FALSE
    /\ added = FALSE
    /\ http = 0

\* the targets driver is not in use
TargetsOff ==
    /\ kpc = "off"
    /\ kCenter = -1
    /\ kSpread = 0
    /\ kTempo = 100
    /\ kOut = -1
    /\ kTargetTempo = 100

\* the drivers of the other specifications are not in use
XOff ==
    /\ VocabOff
    /\ HeroThreadsOff
    /\ PlaylistOff
    /\ TargetsOff

\* the filter driver and the quota history are not in use
AuxOff ==
    /\ lookups = <<>>
    /\ FilterOff
    /\ XOff

Init ==
    /\ cache = NoCache
    /\ heroCache = NoHeroes
    /\ AuxOff
    /\ NormOff
    /\ pc = "idle"
    /\ NoCall

AfterQuota(b) == IF Len(b) < n THEN "search" ELSE "shape"
AfterRecs(b)  == IF user_artist_ids # <<>> THEN "quota" ELSE AfterQuota(b)

\* lines 325-394: normalization, seeds, kwargs.  The parameters of the call
\* (from idLists, genreInputs, counts) and the answers of the external calls
\* (the genre-seed endpoint's from responses) are drawn here.
StartWith(responses, idLists, genreInputs, counts) ==
    /\ pc = "idle"
    /\ \E resp \in responses, ids \in idLists, rg \in genreInputs :
       \E a \in {_allowed_genres(cache, resp)} :
       \E allowed \in {AllowedOrDefault(a.ret)} :
       \E cands \in {_normalize_genre_list(allowed, rg)} :
         LET sa     == Take(ids, 3)
             sg0    == Take(cands, Max(0, 5 - Len(sa)))
             borrow == sa # <<>> /\ sg0 = <<>>
         IN
         \E sg1 \in (IF borrow
                     THEN {_artist_seed_genres(allowed, answers, Max(0, 5 - Len(sa))) :
                              answers \in [1..Len(sa) -> ArtistResponses]}
                     ELSE {sg0}) :
         \E first \in FirstChoices(sa, sg1, allowed) :
         \E sg \in {GuaranteedSeedGenres(sa, sg1, allowed, first)} :
         \E sd \in {SeedsDict(sa, sg)} :
         \E coin \in BOOLEAN, kw_seeds \in KwSeedLists :
            /\ user_artist_ids' = ids
            /\ raw_genres' = rg
            /\ cache' = a.cache
            /\ candidates' = cands
            /\ seed_artists' = sa
            /\ seed_genres' = sg
            /\ seeds' = sd
            /\ seed_tracks' = KwSeedTracks(sd, kw_seeds, coin)
    /\ n' \in counts
    /\ tempo_bpm' \in TempoInputs
    /\ pc' = "recs_full"
    /\ lastCall' = NoCallMade
    /\ hero' = NoHero
    /\ UNCHANGED <<ndrv, heroCache, hero_genre, ok, bag, qi, filtered, result>>

Start == StartWith(PipelineSeedResponses, ArtistIdLists, PipelineGenreInputs, 1..MaxN)

\* line 459: the full request
RecsFull ==
    /\ pc = "recs_full"
    /\ \E resp \in ListResponses :
         LET r == _add_from_recs(bag, resp) IN
         /\ ok' = r.ok
         /\ bag' = r.bag
         /\ lastCall' = Request("full", seeds.seed_artists, seeds.seed_genres, seed_tracks, TRUE, resp)
         /\ pc' = IF r.ok THEN AfterRecs(r.bag) ELSE "recs_slim"
    /\ UNCHANGED <<cache, ndrv, hvars, inputs, seedvars, qi, filtered, result>>

RecsSlimThenGenres ==
    /\ pc = "recs_slim"
    /\ \E resp \in ListResponses :
         LET r == _add_from_recs(bag, resp) IN
         /\ ok' = r.ok
         /\ bag' = r.bag
         /\ lastCall' = Request("slim", seeds.seed_artists, seeds.seed_genres, <<>>, FALSE, resp)
         /\ pc' = IF seed_genres # <<>> THEN "recs_genres" ELSE AfterRecs(r.bag)
    /\ UNCHANGED <<cache, ndrv, hvars, inputs, seedvars, qi, filtered, result>>

\* lines 462-464: fallback 1, the seeds without the targets
RecsSlim ==
    /\ pc = "recs_slim"
    /\ \E resp \in ListResponses :
         LET r == _add_from_recs(bag, resp) IN
         /\ ok' = r.ok
         /\ bag' = r.bag
         /\ lastCall' = Request("slim", seeds.seed_artists, seeds.seed_genres, <<>>, FALSE, resp)
         /\ pc' = IF ~r.ok /\ seed_genres # <<>> THEN "recs_genres" ELSE AfterRecs(r.bag)
    /\ UNCHANGED <<cache, ndrv, hvars, inputs, seedvars, qi, filtered, result>>

\* lines 467-468: fallback 2, the genre seeds alone
RecsGenres ==
    /\ pc = "recs_genres"
    /\ \E resp \in ListResponses :
         LET r == _add_from_recs(bag, resp) IN
         /\ ok' = r.ok
         /\ bag' = r.bag
         /\ lastCall' = Request("genres", <<>>, seed_genres, <<>>, FALSE, resp)
         /\ pc' = AfterRecs(r.bag)
    /\ UNCHANGED <<cache, ndrv, hvars, inputs, seedvars, qi, filtered, result>>

\* lines 476-489: one round of the loop over user_artist_ids[:5], for the
\* answer resp of sp.artist_top_tracks
TopTracksRound(resp) ==
    /\ pc = "quota"
    /\ LET b == IF resp.ok
                THEN AddNewUpTo(bag, resp.tracks, per_artist(n, Len(user_artist_ids)))
                ELSE bag
       IN
       /\ bag' = b
       /\ pc' = IF qi + 1 > Min(Len(user_artist_ids), 5) THEN AfterQuota(b) ELSE "quota"
       /\ lastCall' = Call("artist_top_tracks", Outcome(resp))
    /\ qi' = qi + 1
    /\ UNCHANGED <<cache, ndrv, hvars, inputs, seedvars, ok, filtered, result>>

TopTracks == \E resp \in ListResponses : TopTracksRound(resp)

SearchUnguarded ==
    /\ pc = "search"
    /\ \E resp \in ListResponses :
         /\ bag' = IF resp.ok THEN AddNew(bag, resp.tracks) ELSE bag
         /\ lastCall' = Call("text_search", Outcome(resp))
         /\ pc' = IF resp.ok THEN "filter0" ELSE "raised"
    /\ UNCHANGED <<cache, ndrv, hvars, inputs, seedvars, ok, qi, filtered, result>>

\* lines 492-502: the text search, inside "if len(bag) < n"
Search ==
    /\ pc = "search"
    /\ \E resp \in ListResponses :
         /\ bag' = IF resp.ok THEN AddNew(bag, resp.tracks) ELSE bag
         /\ lastCall' = Call("text_search", Outcome(resp))
    /\ pc' = "filter0"
    /\ UNCHANGED <<cache, ndrv, hvars, inputs, seedvars, ok, qi, filtered, result>>

\* the last external call of _audio_feature_filter: none for an empty pool
FilterCall(uris, featsOk) ==
    IF uris = <<>> THEN NoCallMade
    ELSE Call("audio_features", IF featsOk THEN "tracks" ELSE "error")

AfterFilter1(f) == IF Len(f) < Relax2Threshold(n) THEN "filter2" ELSE "shape"
AfterFilter0(f) == IF Len(f) < Relax1Threshold(n) THEN "filter1" ELSE AfterFilter1(f)

\* line 505: the filter with the caller's params (instrumental_ok is absent)
Filter0 ==
    /\ pc = "filter0"
    /\ \E metaOk \in BOOLEAN, featsOk \in BOOLEAN :
         LET f == _audio_feature_filter(bag, TRUE, tempo_bpm, metaOk, featsOk) IN
         /\ filtered' = Bound(f)
         /\ pc' = AfterFilter0(f)
         /\ lastCall' = FilterCall(bag, featsOk)
    /\ UNCHANGED <<cache, ndrv, hvars, inputs, seedvars, ok, bag, qi, result>>

\* lines 508-513: vocals not required
Filter1 ==
    /\ pc = "filter1"
    /\ \E metaOk \in BOOLEAN, featsOk \in BOOLEAN :
         LET f == _audio_feature_filter(bag, FALSE, tempo_bpm, metaOk, featsOk) IN
         /\ filtered' = Bound(f)
         /\ pc' = AfterFilter1(f)
         /\ lastCall' = FilterCall(bag, featsOk)
    /\ UNCHANGED <<cache, ndrv, hvars, inputs, seedvars, ok, bag, qi, result>>

\* lines 515-517: the last resort
Filter2 ==
    /\ pc = "filter2"
    /\ filtered' = Bound(FilterIn(bag, {t \in Range(bag) : ~UriLooksLikeSfx(t)}))
    /\ pc' = "shape"
    /\ lastCall' = NoCallMade
    /\ UNCHANGED <<cache, ndrv, hvars, inputs, seedvars, ok, bag, qi, result>>

ShapeUncut ==
    /\ pc = "shape"
    /\ IF filtered.bound
       THEN \E p \in Perms(filtered.val) :
              /\ result' = p
              /\ pc' = "returned"
       ELSE /\ result' = result
            /\ pc' = "raised"
    /\ lastCall' = NoCallMade
    /\ UNCHANGED <<cache, ndrv, hvars, inputs, seedvars, ok, bag, qi, filtered>>

\* lines 520-521: shuffle and cut; reading an unbound filtered raises UnboundLocalError
Shape ==
    /\ pc = "shape"
    /\ IF filtered.bound
       THEN \E p \in Perms(filtered.val) :
              /\ result' = Take(p, n)
              /\ pc' = "returned"
       ELSE /\ result' = result
            /\ pc' = "raised"
    /\ lastCall' = NoCallMade
    /\ UNCHANGED <<cache, ndrv, hvars, inputs, seedvars, ok, bag, qi, filtered>>

\* the call is over; the vocabulary cache stays for the next one
NextRequest ==
    /\ pc \in {"returned", "raised"}
    /\ pc' = "idle"
    /\ n' = 1
    /\ user_artist_ids' = <<>>
    /\ raw_genres' = OtherInput
    /\ tempo_bpm' = 100
    /\ candidates' = <<>>
    /\ seed_artists' = <<>>
    /\ seed_genres' = <<>>
    /\ seeds' = [seed_artists |-> <<>>, seed_genres |-> <<>>]
    /\ seed_tracks' = <<>>
    /\ ok' = FALSE
    /\ bag' = <<>>
    /\ qi' = 1
    /\ filtered' = Unbound
    /\ result' = <<>>
    /\ lastCall' = NoCallMade
    /\ UNCHANGED <<cache, ndrv, hvars>>

(***************************************************************************)
(* get_genre_hero, called between two playlist requests.                   *)
(***************************************************************************)
HeroReturn(h) ==
    /\ hero' = h
    /\ hero_genre' = ""
    /\ pc' = "idle"

\* lines 613-633 and 587-594: cache, canonical artist, artist search
GenreHero ==
    /\ pc = "idle"
    /\ \E genre \in HeroInputs :
       \E g \in {HeroKey(genre)} :
         IF g = ""
         THEN HeroReturn(NoHero) /\ UNCHANGED heroCache
         ELSE IF g \in DOMAIN heroCache
         THEN HeroReturn(heroCache[g]) /\ UNCHANGED heroCache
         ELSE \E canon \in (IF g \in DOMAIN _CANON THEN ArtistAnswers(_CANON[g])
                                                  ELSE {NoArtist}),
                 found \in ArtistSearchResponses :
                IF canon.ok
                THEN HeroReturn(HeroData(canon)) /\ heroCache' = CacheHero(heroCache, g, canon)
                ELSE LET a == FirstWithImage(found.items) IN
                     IF found.ok /\ a.ok
                     THEN HeroReturn(HeroData(a)) /\ heroCache' = CacheHero(heroCache, g, a)
                     ELSE /\ hero_genre' = g
                          /\ pc' = "hero_recs"
                          /\ UNCHANGED <<heroCache, hero>>
    /\ lastCall' = NoCallMade
    /\ UNCHANGED <<cache, ndrv, inputs, seedvars, ok, bag, qi, filtered, result>>

\* lines 596-606 and 634-644: the recommendation request and its tracks' artists
HeroRecs ==
    /\ pc = "hero_recs"
    /\ \E resp \in HeroRecsResponses :
       \E looked \in [1..Len(resp.tracks) -> {NoArtist, ArtistObj("A1", FALSE), ArtistObj("A1", TRUE)}] :
         LET a == FirstUsable(resp.tracks, looked) IN
         /\ lastCall' = Request("hero", <<>>, <<hero_genre>>, <<>>, FALSE, resp)
         /\ IF resp.ok /\ a.ok
            THEN HeroReturn(HeroData(a)) /\ heroCache' = CacheHero(heroCache, hero_genre, a)
            ELSE HeroReturn(NoHero) /\ UNCHANGED heroCache
    /\ UNCHANGED <<cache, ndrv, inputs, seedvars, ok, bag, qi, filtered, result>>

Next ==
    \/ Start /\ UNCHANGED aux
    \/ RecsFull /\ UNCHANGED aux
    \/ RecsSlim /\ UNCHANGED aux
    \/ RecsGenres /\ UNCHANGED aux
    \/ TopTracks /\ UNCHANGED aux
    \/ Search /\ UNCHANGED aux
    \/ Filter0 /\ UNCHANGED aux
    \/ Filter1 /\ UNCHANGED aux
    \/ Filter2 /\ UNCHANGED aux
    \/ Shape /\ UNCHANGED aux
    \/ NextRequest /\ UNCHANGED aux
    \/ GenreHero /\ UNCHANGED aux
    \/ HeroRecs /\ UNCHANGED aux

Spec == Init /\ [][Next]_vars

\* number of seed entities of a recommendations request
SeedCount(c) == Len(c.seed_artists) + Len(c.seed_genres) + Len(c.seed_tracks)

\* the latest step sent a recommendations request from recommend_tracks
PipelineRequest ==
    lastCall.op = "recommendations" /\ lastCall.stage \in {"full", "slim", "genres"}

(***************************************************************************)
(* C1: recommend_tracks never raises; it returns a list of at most n       *)
(* identifiers, no identifier twice, also when recommendations and top     *)
(* tracks already supply n or more identifiers.                            *)
(***************************************************************************)
C1_ReturnsBoundedList ==
    /\ pc # "raised"
    /\ pc = "returned" => Len(result) <= n /\ NoDup(result)

(***************************************************************************)
(* C2: a recommendations call that returns zero tracks without raising is  *)
(* not a success: after the full request the seeds-only request follows,   *)
(* after the seeds-only request the genre-seeds-only request follows       *)
(* (when there are genre seeds).                                           *)
(***************************************************************************)
C2_EmptyResultFallsBack ==
    (PipelineRequest /\ lastCall.outcome = "empty") =>
        /\ lastCall.stage = "full" => pc = "recs_slim"
        /\ (lastCall.stage = "slim" /\ seed_genres # <<>>) => pc = "recs_genres"

(***************************************************************************)
(* C3: the content filter has run in every call of recommend_tracks by    *)
(* the time it ends, and the text search is issued only after the filter,  *)
(* when the filtered pool is shorter than n.                               *)
(***************************************************************************)
C3_FilterAlwaysThenSearch ==
    /\ pc \in {"returned", "raised"} => filtered.bound
    /\ lastCall.op = "text_search" => filtered.bound /\ Len(filtered.val) < n

(***************************************************************************)
(* C4: every recommendations request (full, seeds-only, genre-seeds-only,  *)
(* genre hero) carries at most 5 seed entities: artists, genres and        *)
(* tracks together.  The same holds for the kwargs before they are sent.   *)
(***************************************************************************)
C4_SeedBudget ==
    /\ lastCall.op = "recommendations" => SeedCount(lastCall) <= 5
    /\ Len(seeds.seed_artists) + Len(seeds.seed_genres) + Len(seed_tracks) <= 5

C4_Witness ==
    /\ PipelineRequest
    /\ lastCall.stage = "full"
    /\ Len(lastCall.seed_artists) = 3
    /\ Len(lastCall.seed_tracks) = 1
    /\ SeedCount(lastCall) = 5

(***************************************************************************)
(* C5: every recommendations request of recommend_tracks carries at least  *)
(* one seed: seed_artists and seed_genres are not both empty when the      *)
(* first request is built, and the genre-seeds-only request is issued      *)
(* only with a non-empty seed_genres.                                      *)
(***************************************************************************)
C5_AtLeastOneSeed ==
    /\ pc = "recs_full" =>
          /\ seed_artists # <<>> \/ seed_genres # <<>>
          /\ seeds.seed_artists # <<>> \/ seeds.seed_genres # <<>>
    /\ pc = "recs_genres" => seed_genres # <<>>
    /\ PipelineRequest => lastCall.seed_artists # <<>> \/ lastCall.seed_genres # <<>>

C5_Witness ==
    /\ PipelineRequest
    /\ lastCall.stage = "genres"
    /\ user_artist_ids = <<>>
    /\ candidates = <<>>
    /\ Len(lastCall.seed_genres) = 1

(***************************************************************************)
(* C6: with no artist ids, no vocabulary genre in the genre input and a    *)
(* vocabulary that shares a genre with the upbeat preference list, the     *)
(* seed set holds exactly one genre, a member of the upbeat preference     *)
(* list that is in the vocabulary.                                         *)
(***************************************************************************)
C6_SingleUpbeatSeed ==
    ( /\ pc = "recs_full"
      /\ user_artist_ids = <<>>
      /\ FilterIn(Cleaned(InputTokens(raw_genres), <<>>), cache.genres) = <<>>
      /\ Range(upbeat_pref) \cap cache.genres # {} )
    => /\ seeds.seed_artists = <<>>
       /\ Len(seeds.seed_genres) = 1
       /\ Range(seeds.seed_genres) \subseteq Range(upbeat_pref) \cap cache.genres

\* s is a prefix of t
IsPrefix(s, t) == Len(s) <= Len(t) /\ SubSeq(t, 1, Len(s)) = s

(***************************************************************************)
(* C12: relaxation stage 1 is run exactly when fewer than 0.6 n candidates *)
(* survive the filter, and stage 2 exactly when fewer than 0.4 n survive   *)
(* stage 1.                                                                *)
(***************************************************************************)
C12_RelaxationThresholds ==
    [][ /\ pc = "filter0" => (pc' = "filter1" <=> 10 * Len(filtered'.val) < 6 * n)
        /\ pc = "filter1" => (pc' = "filter2" <=> 10 * Len(filtered'.val) < 4 * n) ]_vars

(***************************************************************************)
(* C16: a failing external call of recommend_tracks does not end the call  *)
(* with an exception: the stage counts as failed and the pipeline goes on  *)
(* with the next stage.                                                    *)
(***************************************************************************)
C16_FailuresContained ==
    /\ pc = "recs_full" => CacheTruthy(cache)
    /\ lastCall.outcome = "error" =>
          /\ pc # "raised"
          /\ lastCall.stage = "full" => pc = "recs_slim"
          /\ lastCall.stage = "slim" =>
                pc = IF seed_genres # <<>> THEN "recs_genres" ELSE AfterRecs(bag)
          /\ lastCall.stage = "genres" => pc = AfterRecs(bag)
          /\ lastCall.stage = "hero" => pc = "idle"
          /\ lastCall.op = "artist_top_tracks" => pc \in {"quota", AfterQuota(bag)}
          /\ lastCall.op = "text_search" => pc = "filter0"
          /\ lastCall.op = "audio_features" =>
                filtered.bound /\ pc \in {"filter1", "filter2", "shape"}

C16_Witness ==
    /\ lastCall.op = "text_search"
    /\ lastCall.outcome = "error"
    /\ user_artist_ids # <<>>
    /\ bag # <<>>
    /\ pc = "filter0"

(***************************************************************************)
(* C17: when a recommendations request that carries market raises, the     *)
(* same request is sent again without market before the stage counts as    *)
(* failed.                                                                 *)
(***************************************************************************)
C17_RetriedWithoutMarket ==
    [][ (PipelineRequest /\ lastCall.market /\ lastCall.outcome = "error") =>
            /\ PipelineRequest'
            /\ lastCall'.stage = lastCall.stage
            /\ ~lastCall'.market ]_vars

(***************************************************************************)
(* C18: the recommendation stages come in the order full, seeds-only,      *)
(* genre-seeds-only; a stage is attempted only when every earlier stage    *)
(* gave nothing, none is attempted twice in a call, and a stage adds to    *)
(* the pool only identifiers the pool does not hold yet.                   *)
(***************************************************************************)
C18_StageOrder ==
    [][ /\ pc' = "recs_full" => pc = "idle"
        /\ pc' = "recs_slim" =>
              /\ pc = "recs_full"
              /\ lastCall'.stage = "full" /\ lastCall'.outcome = "error"
              /\ bag' = <<>>
        /\ pc' = "recs_genres" =>
              /\ pc = "recs_slim"
              /\ lastCall'.stage = "slim" /\ lastCall'.outcome = "error"
              /\ bag' = <<>>
        /\ pc \in {"recs_full", "recs_slim", "recs_genres"} =>
              /\ PipelineRequest'
              /\ lastCall'.stage = (CASE pc = "recs_full" -> "full"
                                      [] pc = "recs_slim" -> "slim"
                                      [] OTHER -> "genres")
              /\ IsPrefix(bag, bag')
              /\ NoDup(bag') ]_vars

C18_Witness ==
    /\ PipelineRequest
    /\ lastCall.stage = "genres"
    /\ lastCall.outcome = "tracks"
    /\ bag # <<>>

(***************************************************************************)
(* C20: a returned list has exactly min(|filtered pool|, n) elements, all  *)
(* of them from the filtered pool, none twice.                             *)
(***************************************************************************)
C20_ShapeExact ==
    pc = "returned" =>
        /\ Len(result) = Min(Len(filtered.val), n)
        /\ Range(result) \subseteq Range(filtered.val)
        /\ NoDup(result)

C20_Witness ==
    /\ pc = "returned"
    /\ Len(filtered.val) > n
    /\ Len(result) = n

\* the declared genres of the looked-up artists that are vocabulary genres:
\* tokenized, synonyms applied, no genre twice, at most 5
DeclaredGenres(allowed, answers) ==
    Take(FilterIn(Cleaned(InputTokens(ListInput(ArtistRawGenres(answers))), <<>>), allowed), 5)

(***************************************************************************)
(* C27: in a call with artist ids whose genre input holds no vocabulary    *)
(* genre, the genre seeds are vocabulary genres declared by the seed        *)
(* artists, at most 5 minus the number of seed artists of them, and not    *)
(* the fixed default list.                                                 *)
(***************************************************************************)
C27_SeedsFromArtistGenres ==
    ( /\ pc \notin {"idle", "off"}
      /\ user_artist_ids # <<>>
      /\ FilterIn(Cleaned(InputTokens(raw_genres), <<>>), cache.genres) = <<>> ) =>
        /\ seeds.seed_genres = seed_genres
        /\ \E answers \in [1..Len(seed_artists) -> ArtistResponses] :
              seed_genres = Take(DeclaredGenres(cache.genres, answers), 5 - Len(seed_artists))

(***************************************************************************)
(* SpecNorm: the normalizer applied to an input, then to its own output.   *)
(* normalize_genres_for_debug is the entry point.                          *)
(***************************************************************************)
InitNorm ==
    /\ cache = NoCache
    /\ heroCache = NoHeroes
    /\ AuxOff
    /\ npc = "start"
    /\ nInput \in GenreInputs
    /\ nAllowed = {}
    /\ nOut = <<>>
    /\ nOut2 = <<>>
    /\ pc = "off"
    /\ NoCall

\* first call: the vocabulary is fetched (or defaulted) unless already cached
NormFirst ==
    /\ npc = "start"
    /\ \E resp \in GenreSeedResponses :
         LET a == _allowed_genres(cache, resp) IN
         /\ cache' = a.cache
         /\ nAllowed' = AllowedOrDefault(a.ret)
         /\ nOut' = _normalize_genre_list(AllowedOrDefault(a.ret), nInput)
    /\ npc' = "once"
    /\ UNCHANGED <<nInput, nOut2, pvars>>

\* second call: the output of the first call is the input
NormAgain ==
    /\ npc = "once"
    /\ \E resp \in GenreSeedResponses :
         LET a == _allowed_genres(cache, resp) IN
         /\ cache' = a.cache
         /\ nOut2' = _normalize_genre_list(AllowedOrDefault(a.ret), AsListInput(nOut))
    /\ npc' = "twice"
    /\ UNCHANGED <<nInput, nAllowed, nOut, pvars>>

\* a later request of the same process: the cache stays
NormNext ==
    /\ npc = "twice"
    /\ npc' = "start"
    /\ nInput' \in GenreInputs
    /\ nOut' = <<>>
    /\ nOut2' = <<>>
    /\ UNCHANGED <<cache, nAllowed, pvars>>

NextNorm ==
    \/ NormFirst /\ UNCHANGED aux
    \/ NormAgain /\ UNCHANGED aux
    \/ NormNext /\ UNCHANGED aux

SpecNorm == InitNorm /\ [][NextNorm]_vars

\* the valid tokens of the input, before any cap or default
ValidTokens == FilterIn(Cleaned(InputTokens(nInput), <<>>), nAllowed)

(***************************************************************************)
(* SpecVocab: _allowed_genres called from several threads.  The endpoints  *)
(* of main.py are synchronous functions, which the server runs in a thread *)
(* pool; a thread can be suspended between reading the cache, waiting for  *)
(* the genre-seed endpoint and writing the cache.                          *)
(***************************************************************************)
InitVocab ==
    /\ cache = NoCache
    /\ heroCache = NoHeroes
    /\ NormOff
    /\ pc = "off"
    /\ NoCall
    /\ lookups = <<>>
    /\ FilterOff
    /\ HeroThreadsOff
    /\ PlaylistOff
    /\ TargetsOff
    /\ vpc = [t \in Threads |-> "idle"]
    /\ vseeds = [t \in Threads |-> NoSeeds]
    /\ vret = [t \in Threads |-> {}]

\* lines 99-100: the test of the cache; a truthy cache is returned
VocabCheck(t) ==
    /\ vpc[t] = "idle"
    /\ IF CacheTruthy(cache)
       THEN /\ vret' = [vret EXCEPT ![t] = cache.genres]
            /\ vpc' = vpc
       ELSE /\ vpc' = [vpc EXCEPT ![t] = "fetch"]
            /\ vret' = vret
    /\ UNCHANGED <<cache, vseeds, ndrv, pvars, lookups, fvars, gvars, plvars, kvars>>

\* lines 102-110: the genre-seed endpoint answers or raises
VocabFetch(t) ==
    /\ vpc[t] = "fetch"
    /\ vseeds' \in {[vseeds EXCEPT ![t] = resp] : resp \in GenreSeedResponses}
    /\ vpc' = [vpc EXCEPT ![t] = "write"]
    /\ UNCHANGED <<cache, vret, ndrv, pvars, lookups, fvars, gvars, plvars, kvars>>

\* lines 111-113 and 118-119: the cache is assigned, whatever it holds by now
VocabWrite(t) ==
    /\ vpc[t] = "write"
    /\ LET a == _allowed_genres(NoCache, vseeds[t]) IN
         /\ cache' = a.cache
         /\ vret' = [vret EXCEPT ![t] = a.ret]
    /\ vseeds' = [vseeds EXCEPT ![t] = NoSeeds]
    /\ vpc' = [vpc EXCEPT ![t] = "idle"]
    /\ UNCHANGED <<ndrv, pvars, lookups, fvars, gvars, plvars, kvars>>

NextVocab ==
    \/ \E t \in Threads : VocabCheck(t)
    \/ \E t \in Threads : VocabFetch(t)
    \/ \E t \in Threads : VocabWrite(t)

SpecVocab == InitVocab /\ [][NextVocab]_vars

(***************************************************************************)
(* C21: once _ALLOWED_GENRES_CACHE holds a vocabulary, from the endpoint   *)
(* or from the default set, no later step changes it, whatever the order   *)
(* in which concurrent callers of _allowed_genres run.                     *)
(***************************************************************************)
C21_CacheWrittenOnce ==
    [][cache.populated => cache' = cache]_vars

(***************************************************************************)
(* get_genre_hero, one lookup step at a time, called from request threads  *)
(* (the endpoints spotify_genre_hero and spotify_genre_heroes).  Each step *)
(* of a call is recorded in hcalls: the source tried and whether it gave   *)
(* a usable artist.                                                        *)
(***************************************************************************)
\* the genre arguments: spellings of "pop" (in _CANON), "rock" (not in _CANON),
\* a blank and an empty string
HeroArgs == {S_PopPadded, S_pop, S_Rock, S_blank, S_empty}

Step(op, usable) == [op |-> op, usable |-> usable]

\* return data / return None
HeroThreadReturn(t, h) ==
    /\ hret' = [hret EXCEPT ![t] = h]
    /\ hpc' = [hpc EXCEPT ![t] = "idle"]

\* _GENRE_HERO_CACHE[g] = data; return data
HeroThreadStore(t, g, a) ==
    /\ heroCache' = CacheHero(heroCache, g, a)
    /\ HeroThreadReturn(t, HeroData(a))

HeroOthers == <<cache, ndrv, rvars, hero_genre, hero, lookups, fvars, vvars, plvars, kvars>>

HeroEnterIgnoresCache(t) ==
    /\ hpc[t] = "idle"
    /\ \E genre \in HeroArgs :
       \E g \in {HeroKey(genre)} :
         /\ harg' = [harg EXCEPT ![t] = genre]
         /\ hcalls' = [hcalls EXCEPT ![t] = <<>>]
         /\ IF g = ""
            THEN HeroThreadReturn(t, NoHero)
            ELSE /\ hpc' = [hpc EXCEPT ![t] = IF g \in DOMAIN _CANON THEN "canon" ELSE "search"]
                 /\ hret' = [hret EXCEPT ![t] = NoHero]
    /\ UNCHANGED <<heroCache, HeroOthers>>

\* lines 613-620: the key, the empty key, the cache
HeroEnter(t) ==
    /\ hpc[t] = "idle"
    /\ \E genre \in HeroArgs :
       \E g \in {HeroKey(genre)} :
         /\ harg' = [harg EXCEPT ![t] = genre]
         /\ hcalls' = [hcalls EXCEPT ![t] = <<>>]
         /\ IF g = ""
            THEN HeroThreadReturn(t, NoHero)
            ELSE IF g \in DOMAIN heroCache
            THEN HeroThreadReturn(t, heroCache[g])
            ELSE /\ hpc' = [hpc EXCEPT ![t] = IF g \in DOMAIN _CANON THEN "canon" ELSE "search"]
                 /\ hret' = [hret EXCEPT ![t] = NoHero]
    /\ UNCHANGED <<heroCache, HeroOthers>>

HeroCanonOrNothing(t) ==
    /\ hpc[t] = "canon"
    /\ \E a \in ArtistAnswers(_CANON[HeroKey(harg[t])]) :
         /\ hcalls' = [hcalls EXCEPT ![t] = Append(@, Step("canon", a.ok))]
         /\ IF a.ok
            THEN HeroThreadStore(t, HeroKey(harg[t]), a)
            ELSE HeroThreadReturn(t, NoHero) /\ UNCHANGED heroCache
    /\ UNCHANGED <<harg, HeroOthers>>

\* lines 620-630 and 579-583: the canonical artist is fetched; an exception is None
HeroCanon(t) ==
    /\ hpc[t] = "canon"
    /\ \E a \in ArtistAnswers(_CANON[HeroKey(harg[t])]) :
         /\ hcalls' = [hcalls EXCEPT ![t] = Append(@, Step("canon", a.ok))]
         /\ IF a.ok
            THEN HeroThreadStore(t, HeroKey(harg[t]), a)
            ELSE /\ hpc' = [hpc EXCEPT ![t] = "search"]
                 /\ UNCHANGED <<heroCache, hret>>
    /\ UNCHANGED <<harg, HeroOthers>>

\* lines 586-594 and 633-642: the search by genre tag; the first artist with an image
HeroSearch(t) ==
    /\ hpc[t] = "search"
    /\ \E found \in ArtistSearchResponses :
         LET a == FirstWithImage(found.items)
             usable == found.ok /\ a.ok
         IN
         /\ hcalls' = [hcalls EXCEPT ![t] = Append(@, Step("search", usable))]
         /\ IF usable
            THEN HeroThreadStore(t, HeroKey(harg[t]), a)
            ELSE /\ hpc' = [hpc EXCEPT ![t] = "recs"]
                 /\ UNCHANGED <<heroCache, hret>>
    /\ UNCHANGED <<harg, HeroOthers>>

\* lines 595-607 and 633-644: the recommendations for the genre; the first
\* track whose primary artist can be fetched and has an image
HeroRecommend(t) ==
    /\ hpc[t] = "recs"
    /\ \E resp \in HeroRecsResponses :
       \E looked \in [1..Len(resp.tracks) ->
                        {NoArtist, ArtistObj("A2", FALSE), ArtistObj("A2", TRUE)}] :
         LET a == FirstUsable(resp.tracks, looked)
             usable == resp.ok /\ a.ok
         IN
         /\ hcalls' = [hcalls EXCEPT ![t] = Append(@, Step("recs", usable))]
         /\ IF usable
            THEN HeroThreadStore(t, HeroKey(harg[t]), a)
            ELSE HeroThreadReturn(t, NoHero) /\ UNCHANGED heroCache
    /\ UNCHANGED <<harg, HeroOthers>>

InitHero ==
    /\ cache = NoCache
    /\ heroCache = NoHeroes
    /\ NormOff
    /\ pc = "off"
    /\ NoCall
    /\ lookups = <<>>
    /\ FilterOff
    /\ VocabOff
    /\ PlaylistOff
    /\ TargetsOff
    /\ hpc = [t \in Threads |-> "idle"]
    /\ harg = [t \in Threads |-> <<>>]
    /\ hret = [t \in Threads |-> NoHero]
    /\ hcalls = [t \in Threads |-> <<>>]

(***************************************************************************)
(* SpecHeroRace: the calls of the threads interleave.                      *)
(***************************************************************************)
NextHeroRace ==
    \/ \E t \in Threads : HeroEnter(t)
    \/ \E t \in Threads : HeroCanon(t)
    \/ \E t \in Threads : HeroSearch(t)
    \/ \E t \in Threads : HeroRecommend(t)

SpecHeroRace == InitHero /\ [][NextHeroRace]_vars

(***************************************************************************)
(* C22: whatever the interleaving of concurrent get_genre_hero calls, a    *)
(* key of _GENRE_HERO_CACHE that has been written keeps its hero: every    *)
(* later write to the key stores the same artist id.                       *)
(***************************************************************************)
C22_HeroWritesAgree ==
    [][\A g \in DOMAIN heroCache : heroCache'[g].id = heroCache[g].id]_vars

(***************************************************************************)
(* SpecHeroSeq: one call after the other (a single thread calls).          *)
(***************************************************************************)
NextHeroSeq ==
    \/ HeroEnter(1)
    \/ HeroCanon(1)
    \/ HeroSearch(1)
    \/ HeroRecommend(1)

SpecHeroSeq == InitHero /\ [][NextHeroSeq]_vars

\* thread t takes the first step of a call
Enters(t) == hpc[t] = "idle" /\ <<hpc[t], harg[t], hret[t], hcalls[t]>>' # <<hpc[t], harg[t], hret[t], hcalls[t]>>

\* thread t is back from a call
Returned(t) == hpc[t] = "idle"

(***************************************************************************)
(* C23: when a call of get_genre_hero has returned a hero for a genre,     *)
(* every later call, one after the other, whose genre string has the same  *)
(* key (trimmed, lower-cased) returns that same cached hero and makes no   *)
(* external call: a returned hero is the cache's entry for the key, an     *)
(* entry is never replaced, and a call whose key has an entry returns the  *)
(* entry at once with no lookup step.                                      *)
(***************************************************************************)
C23_CachedHeroReused ==
    [][\A t \in Threads :
         /\ (Returned(t)' /\ hret'[t].found) =>
                /\ HeroKey(harg'[t]) \in DOMAIN heroCache'
                /\ heroCache'[HeroKey(harg'[t])] = hret'[t]
         /\ \A g \in DOMAIN heroCache :
                /\ g \in DOMAIN heroCache' /\ heroCache'[g] = heroCache[g]
                /\ (Enters(t) /\ HeroKey(harg'[t]) = g) =>
                       /\ Returned(t)'
                       /\ hret'[t] = heroCache[g]
                       /\ hcalls'[t] = <<>>]_vars

\* a call for "pop", spelled " Pop ", has been answered from the cache
C23_Witness ==
    /\ Returned(1)
    /\ harg[1] = S_PopPadded
    /\ hcalls[1] = <<>>
    /\ hret[1].found
    /\ hret[1] = heroCache["pop"]

\* the sources get_genre_hero tries for key g after the cache, in order
HeroSources(g) ==
    (IF g \in DOMAIN _CANON THEN <<"canon">> ELSE <<>>) \o <<"search", "recs">>

(***************************************************************************)
(* C28: get_genre_hero tries the cache, the canonical artist, the artist   *)
(* search and the recommendations in this order; a source is tried only    *)
(* when every earlier one gave nothing usable; no call ends with an        *)
(* exception; the result is absent only when every source failed; an empty *)
(* or blank genre returns absent with no lookup step.                      *)
(***************************************************************************)
C28_HeroFallbackOrder ==
    \A t \in Threads :
        LET g == HeroKey(harg[t])
            c == hcalls[t]
        IN
        /\ hpc[t] # "raised"
        /\ IsPrefix([i \in 1..Len(c) |-> c[i].op], HeroSources(g))
        /\ \A i \in 1..(Len(c) - 1) : ~c[i].usable
        /\ Returned(t) =>
              /\ g = "" => (c = <<>> /\ ~hret[t].found)
              /\ (g # "" /\ c = <<>>) => (hret[t].found /\ hret[t] = heroCache[g])
              /\ c # <<>> => (hret[t].found <=> c[Len(c)].usable)
              /\ (g # "" /\ ~hret[t].found) => Len(c) = Len(HeroSources(g))

\* the canonical artist and the search failed, the recommendations gave the hero
C28_Witness ==
    /\ Returned(1)
    /\ HeroKey(harg[1]) = "pop"
    /\ Len(hcalls[1]) = 3
    /\ hret[1].found
    /\ hret[1].id = "A2"

(***************************************************************************)
(* SpecPlaylist: the endpoint playlist_create (main.py), with the call of  *)
(* recommend_tracks followed step by step.                                 *)
(***************************************************************************)
InitPlaylist ==
    /\ cache = NoCache
    /\ heroCache = NoHeroes
    /\ NormOff
    /\ pc = "idle"
    /\ NoCall
    /\ lookups = <<>>
    /\ FilterOff
    /\ VocabOff
    /\ HeroThreadsOff
    /\ TargetsOff
    /\ ppc = "idle"
    /\ created = FALSE
    /\ added = FALSE
    /\ http = 0

PlaylistOthers == <<lookups, fvars, vvars, gvars, kvars>>

\* the response is sent: HTTPException(status) or the 200 body
Respond(status) ==
    /\ http' = status
    /\ ppc' = "done"

\* lines 271-296: the prompt, the vibe analysis, the client and sp.me();
\* a blank prompt is answered with 400, an exception with 500
PlaylistEnter ==
    /\ ppc = "idle"
    /\ \E prelude \in {"blank_prompt", "exception", "ok"} :
         IF prelude = "blank_prompt" THEN Respond(400)
         ELSE IF prelude = "exception" THEN Respond(500)
         ELSE ppc' = "recommend" /\ http' = http
    /\ UNCHANGED <<cache, ndrv, pvars, created, added, PlaylistOthers>>

\* line 299: recommend_tracks(sp, params, n=limit) starts
PlaylistRecommend ==
    /\ ppc = "recommend"
    /\ Start
    /\ UNCHANGED <<plvars, PlaylistOthers>>

PlaylistCreateUnchecked ==
    /\ ppc = "recommend"
    /\ pc \in {"returned", "raised"}
    /\ IF pc = "raised" THEN Respond(500) /\ created' = created
       ELSE \E createOk \in BOOLEAN :
              IF createOk THEN /\ created' = TRUE
                               /\ ppc' = "add"
                               /\ http' = http
              ELSE Respond(500) /\ created' = created
    /\ UNCHANGED <<cache, ndrv, pvars, added, PlaylistOthers>>

\* lines 299-310: recommend_tracks is back; an exception is answered with 500,
\* an empty list with 400; otherwise create_playlist is called
PlaylistCreate ==
    /\ ppc = "recommend"
    /\ pc \in {"returned", "raised"}
    /\ IF pc = "raised" THEN Respond(500) /\ created' = created
       ELSE IF result = <<>> THEN Respond(400) /\ created' = created
       ELSE \E createOk \in BOOLEAN :
              IF createOk THEN /\ created' = TRUE
                               /\ ppc' = "add"
                               /\ http' = http
              ELSE Respond(500) /\ created' = created
    /\ UNCHANGED <<cache, ndrv, pvars, added, PlaylistOthers>>

\* line 313: add_tracks(sp, pl_id, uris[:limit])
PlaylistAdd ==
    /\ ppc = "add"
    /\ \E addOk \in BOOLEAN :
         IF addOk THEN /\ added' = TRUE
                       /\ ppc' = "lookup"
                       /\ http' = http
         ELSE Respond(500) /\ added' = added
    /\ UNCHANGED <<cache, ndrv, pvars, created, PlaylistOthers>>

\* lines 316-317: sp.playlist(pl_id) and the 200 response
PlaylistLookup ==
    /\ ppc = "lookup"
    /\ \E lookupOk \in BOOLEAN : Respond(IF lookupOk THEN 200 ELSE 500)
    /\ UNCHANGED <<cache, ndrv, pvars, created, added, PlaylistOthers>>

\* the next request of the same process
PlaylistNext ==
    /\ ppc = "done"
    /\ ppc' = "idle"
    /\ created' = FALSE
    /\ added' = FALSE
    /\ http' = 0
    /\ IF pc = "idle" THEN UNCHANGED <<cache, ndrv, pvars>> ELSE NextRequest
    /\ UNCHANGED PlaylistOthers

NextPlaylist ==
    \/ PlaylistEnter
    \/ PlaylistRecommend
    \/ RecsFull /\ UNCHANGED aux
    \/ RecsSlim /\ UNCHANGED aux
    \/ RecsGenres /\ UNCHANGED aux
    \/ TopTracks /\ UNCHANGED aux
    \/ Search /\ UNCHANGED aux
    \/ Filter0 /\ UNCHANGED aux
    \/ Filter1 /\ UNCHANGED aux
    \/ Filter2 /\ UNCHANGED aux
    \/ Shape /\ UNCHANGED aux
    \/ PlaylistCreate
    \/ PlaylistAdd
    \/ PlaylistLookup
    \/ PlaylistNext

SpecPlaylist == InitPlaylist /\ [][NextPlaylist]_vars

(***************************************************************************)
(* C24: playlist_create calls create_playlist and add_tracks only after    *)
(* recommend_tracks has returned its list, and only for a non-empty list:  *)
(* when recommend_tracks raises or returns an empty list, no playlist is   *)
(* created and no tracks are added.                                        *)
(***************************************************************************)
C24_NoPlaylistBeforeList ==
    /\ created => (pc = "returned" /\ result # <<>> /\ ppc \in {"add", "lookup", "done"})
    /\ added => (created /\ ppc \in {"lookup", "done"})
    /\ (ppc = "done" /\ (pc = "raised" \/ (pc = "returned" /\ result = <<>>))) =>
           (~created /\ ~added /\ http \in {400, 500})

\* recommend_tracks returned an empty list: 400, nothing created
C24_Witness ==
    /\ ppc = "done"
    /\ pc = "returned"
    /\ result = <<>>
    /\ http = 400
    /\ ~created

(***************************************************************************)
(* C31: playlist_create is all-or-nothing: when it answers with an error   *)
(* (400 or 500), no playlist has been created in the request, also when    *)
(* add_tracks or the final playlist lookup fails.                          *)
(***************************************************************************)
C31_ErrorLeavesNoPlaylist ==
    (ppc = "done" /\ http # 200) => ~created

(***************************************************************************)
(* SpecTargets: the targets of the recommendations request (lines 341-342  *)
(* and 371-387) and the jitter functions _jitter and _j.  A value of       *)
(* [0,1] is given in thousandths; the functions round to two decimals,     *)
(* that is to a multiple of 10 thousandths.                                *)
(***************************************************************************)
Unit == 1000
None == -1

\* round(x, 2) for x = u thousandths; up: the way a value halfway between two
\* hundredths goes (the float nearest to it lies on either side)
Round2(u, up) ==
    LET q == u \div 10
        r == u % 10
    IN IF r < 5 THEN 10 * q
       ELSE IF r > 5 \/ up THEN 10 * q + 10
       ELSE 10 * q

JitterLoUnclamped(val, spread) == val - spread

\* the interval random.uniform draws from
JitterLo(val, spread) == Max(0, val - spread)
JitterHi(val, spread) == Min(Unit, val + spread)

\* the body shared by _jitter and _j; u is the value random.uniform(lo, hi) gave
JitterWith(val, spread, u, up) ==
    IF val = None THEN None ELSE Round2(u, up)

_jitter(val, u, up) == JitterWith(val, 150, u, up)
_j(x, u, up)        == JitterWith(x, 120, u, up)

\* the spreads in use: the default of _j and the default of _jitter
Spreads == {120, 150}

\* centers: every thousandth of [0,1], and None
Centers == (0..Unit) \cup {None}

\* values of params["tempo_bpm"]
TempoParams == 0..260

\* tempo = max(40, min(220, int(tempo_bpm)))
ClampTempo(t) == Max(40, Min(220, t))

InitTargets ==
    /\ cache = NoCache
    /\ heroCache = NoHeroes
    /\ NormOff
    /\ pc = "off"
    /\ NoCall
    /\ lookups = <<>>
    /\ FilterOff
    /\ VocabOff
    /\ HeroThreadsOff
    /\ PlaylistOff
    /\ \/ kpc = "jitter" /\ kCenter \in Centers /\ kSpread \in Spreads /\ kTempo = 100
       \/ kpc = "tempo" /\ kCenter = None /\ kSpread = 0 /\ kTempo \in TempoParams
    /\ kOut = None
    /\ kTargetTempo = 100

TargetsOthers == <<cache, ndrv, pvars, lookups, fvars, vvars, gvars, plvars>>

\* lines 162-167 and 371-376: a center passed through the jitter function of
\* spread kSpread
JitterCall ==
    /\ kpc = "jitter"
    /\ \E u \in JitterLo(kCenter, kSpread)..JitterHi(kCenter, kSpread), up \in BOOLEAN :
         kOut' = IF kSpread = 120 THEN _j(kCenter, u, up) ELSE _jitter(kCenter, u, up)
    /\ kpc' = "done"
    /\ UNCHANGED <<kCenter, kSpread, kTempo, kTargetTempo, TargetsOthers>>

\* lines 341-342 and 385: the clamped tempo with its random offset
TargetTempo ==
    /\ kpc = "tempo"
    /\ \E offset \in -8..8 : kTargetTempo' = ClampTempo(kTempo) + offset
    /\ kpc' = "sent"
    /\ UNCHANGED <<kCenter, kSpread, kTempo, kOut, TargetsOthers>>

NextTargets == JitterCall \/ TargetTempo

SpecTargets == InitTargets /\ [][NextTargets]_vars

(***************************************************************************)
(* C25 as stated: for a center in [0,1] and the spreads 0.12 and 0.15 the  *)
(* jitter functions return a value of [0,1] that lies in                   *)
(* [max(0, center - spread), min(1, center - spread)]; an absent center    *)
(* gives an absent output.                                                 *)
(***************************************************************************)
C25_JitterInStatedInterval ==
    kpc = "done" =>
        IF kCenter = None THEN kOut = None
        ELSE /\ 0 <= kOut /\ kOut <= Unit
             /\ Max(0, kCenter - kSpread) <= kOut
             /\ kOut <= Min(Unit, kCenter - kSpread)

(***************************************************************************)
(* C25 as amended: the jitter functions return a multiple of 0.01 in [0,1] *)
(* that is at most 0.005 away from the interval                            *)
(* [max(0, center - spread), min(1, center + spread)]; an absent center    *)
(* gives an absent output.                                                 *)
(***************************************************************************)
C25_JitterNearInterval ==
    kpc = "done" =>
        IF kCenter = None THEN kOut = None
        ELSE /\ 0 <= kOut /\ kOut <= Unit
             /\ kOut % 10 = 0
             /\ Max(0, kCenter - kSpread) - 5 <= kOut
             /\ kOut <= Min(Unit, kCenter + kSpread) + 5

\* center 0.503, spread 0.12: the draw 0.384 is returned as 0.38, below 0.383
C25_Witness ==
    /\ kpc = "done"
    /\ kCenter = 503
    /\ kSpread = 120
    /\ kOut = 380

(***************************************************************************)
(* C29: whatever tempo_bpm the parameters hold, the target_tempo of the    *)
(* recommendations request lies in 40..220.                                *)
(***************************************************************************)
C29_TargetTempoInRange ==
    kpc = "sent" => (40 <= kTargetTempo /\ kTargetTempo <= 220)

(***************************************************************************)
(* SpecArtists: recommend_tracks called with artist ids, the quota loop    *)
(* recorded: lookups gets one entry per artist_top_tracks call.            *)
(***************************************************************************)
MaxArtistTracks == 3    \* size of the catalogue the top tracks come from

\* numbers of artist ids of the calls: one, two, and more than the loop reads
QuotaArtistIdLists == {[i \in 1..k |-> i] : k \in {1, 2, MaxArtistIds + 2}}

\* requested counts of the calls
QuotaCounts == (1..MaxN) \cup {15, 50}

\* what sp.artist_top_tracks may answer
ArtistTrackResponses ==
    {[ok |-> FALSE, tracks |-> <<>>]} \cup
    {[ok |-> TRUE, tracks |-> Ascending(S)] : S \in SUBSET (1..MaxArtistTracks)}

StartArtists ==
    /\ StartWith({[ok |-> FALSE, genres |-> {}]}, QuotaArtistIdLists,
                 {ListInput(<<>>)}, QuotaCounts)
    /\ lookups' = <<>>
    /\ UNCHANGED <<fvars, xvars>>

\* a round of the loop; added: the tracks it put into the pool, skipped: the
\* unseen tracks of the answer it left out
TopTracksRecorded ==
    /\ \E resp \in ArtistTrackResponses :
         /\ TopTracksRound(resp)
         /\ lookups' = Append(lookups,
                          [added   |-> Range(bag') \ Range(bag),
                           skipped |-> Range(resp.tracks) \ Range(bag')])
    /\ UNCHANGED <<fvars, xvars>>

NextArtists ==
    \/ StartArtists
    \/ RecsFull /\ UNCHANGED aux
    \/ RecsSlim /\ UNCHANGED aux
    \/ RecsGenres /\ UNCHANGED aux
    \/ TopTracksRecorded
    \/ Search /\ UNCHANGED aux
    \/ Filter0 /\ UNCHANGED aux
    \/ Filter1 /\ UNCHANGED aux
    \/ Filter2 /\ UNCHANGED aux
    \/ Shape /\ UNCHANGED aux
    \/ NextRequest /\ UNCHANGED aux

SpecArtists == Init /\ [][NextArtists]_vars

(***************************************************************************)
(* C14: in a returned list, every requested artist whose top-track lookup  *)
(* put at least one new track into the pool has at least one track.        *)
(***************************************************************************)
C14_ArtistsRepresented ==
    pc = "returned" =>
        \A i \in 1..Len(lookups) :
            lookups[i].added # {} => lookups[i].added \cap Range(result) # {}

(***************************************************************************)
(* C15: a round of the quota loop adds at most                             *)
(* max(2, target_total // artist_count) identifiers, with                  *)
(* target_total = max(8, min(3n // 5, 28)), all of them new to the pool;   *)
(* a failed lookup leaves the pool as it is and the loop goes on with the  *)
(* next artist; at most the first 5 artists are looked up.                 *)
(***************************************************************************)
C15_QuotaPerArtist ==
    [][ pc = "quota" =>
          /\ IsPrefix(bag, bag')
          /\ NoDup(bag')
          /\ Len(bag') - Len(bag) <=
                Max(2, Max(8, Min((3 * n) \div 5, 28)) \div Len(user_artist_ids))
          /\ lastCall'.outcome = "error" => bag' = bag
          /\ qi <= 5
          /\ (qi < 5 /\ qi < Len(user_artist_ids)) => pc' = "quota" /\ qi' = qi + 1
          /\ (qi = 5 \/ qi = Len(user_artist_ids)) => pc' # "quota" ]_vars

C15_Witness ==
    /\ pc = "quota"
    /\ qi = 3
    /\ lastCall.outcome = "error"
    /\ lookups[1].skipped # {}
    /\ Cardinality(lookups[1].added) = 2

(***************************************************************************)
(* SpecQuota: the quota loop of recommend_tracks (lines 471-489) for every *)
(* requested count and for answers of artist_top_tracks long enough to     *)
(* fill any quota.  The loop starts from the state a full request that     *)
(* gave the tracks 1 and 2 leaves behind.                                  *)
(***************************************************************************)
MaxTopTracks == 30      \* most tracks an artist_top_tracks answer carries

\* limit: int = Query(15, ge=1, le=50)
Limits == 1..50

\* numbers of artist ids: from one to more than the loop reads
QuotaSizes == 1..7

\* the tracks of artist aid, none of them shared with another artist or the
\* recommendations
ArtistBlock(aid, len) == [j \in 1..len |-> 100 * aid + j]

\* what sp.artist_top_tracks(aid) may answer
BlockResponses(aid) ==
    { [ok |-> FALSE, tracks |-> <<>>],
      [ok |-> TRUE,  tracks |-> ArtistBlock(aid, 3)],
      [ok |-> TRUE,  tracks |-> ArtistBlock(aid, MaxTopTracks)] }

InitQuota ==
    /\ cache = Cached(DEFAULT_SEED_GENRES)
    /\ heroCache = NoHeroes
    /\ NormOff
    /\ FilterOff
    /\ XOff
    /\ lookups = <<>>
    /\ pc = "quota"
    /\ n \in Limits
    /\ user_artist_ids \in {[i \in 1..k |-> i] : k \in QuotaSizes}
    /\ raw_genres = ListInput(<<>>)
    /\ tempo_bpm = 140
    /\ candidates = _normalize_genre_list(DEFAULT_SEED_GENRES, raw_genres)
    /\ seed_artists = Take(user_artist_ids, 3)
    /\ seed_genres = Take(candidates, Max(0, 5 - Len(seed_artists)))
    /\ seeds = SeedsDict(seed_artists, seed_genres)
    /\ seed_tracks = <<>>
    /\ ok = TRUE
    /\ bag = <<1, 2>>
    /\ qi = 1
    /\ filtered = Unbound
    /\ result = <<>>
    /\ lastCall = Request("full", seeds.seed_artists, seeds.seed_genres, <<>>, TRUE,
                          [ok |-> TRUE, tracks |-> <<1, 2>>])
    /\ hero_genre = ""
    /\ hero = NoHero

\* a round of the loop, recorded as in SpecArtists
TopTracksBlocks ==
    /\ pc = "quota"
    /\ \E resp \in BlockResponses(user_artist_ids[qi]) :
         /\ TopTracksRound(resp)
         /\ lookups' = Append(lookups,
                          [added   |-> Range(bag') \ Range(bag),
                           skipped |-> Range(resp.tracks) \ Range(bag')])
    /\ UNCHANGED <<fvars, xvars>>

NextQuota == TopTracksBlocks

SpecQuota == InitQuota /\ [][NextQuota]_vars

\* the number of identifiers the rounds so far have added
RECURSIVE AddedSoFar(_)
AddedSoFar(l) == IF l = <<>> THEN 0 ELSE Cardinality(Head(l).added) + AddedSoFar(Tail(l))

(***************************************************************************)
(* C30: for every n in 1..50 and every number of artist ids, the quota     *)
(* loop adds at most 28 identifiers to the pool in all.                    *)
(***************************************************************************)
C30_QuotaTotalAtMost28 ==
    /\ AddedSoFar(lookups) <= 28
    /\ Len(bag) = 2 + AddedSoFar(lookups)

\* n = 50, four artists, 7 tracks taken from each
C30_Witness ==
    /\ pc # "quota"
    /\ n = 50
    /\ Len(user_artist_ids) = 4
    /\ AddedSoFar(lookups) = 28

(***************************************************************************)
(* SpecFilter: _audio_feature_filter applied to one pool with the caller's *)
(* params, again with vocals not required, and the last resort of          *)
(* recommend_tracks on the same pool.                                      *)
(***************************************************************************)
MaxPool == 2            \* longest pool handed to the filter

\* a candidate: what the title heuristic says of its metadata and of its URI
\* string, and its audio-features entry
Candidate(sfxTitle, sfxUri, f) == [sfxTitle |-> sfxTitle, sfxUri |-> sfxUri, feat |-> f]

Song(tempo) ==
    [present |-> TRUE, duration_ms |-> 200000, speechiness |-> 5,
     instrumentalness |-> 10, energy |-> 70, tempo |-> tempo]

NoFeatures ==
    [present |-> FALSE, duration_ms |-> 0, speechiness |-> 0,
     instrumentalness |-> 0, energy |-> 0, tempo |-> 0]

\* the kinds of candidate of the pools, for the tempo target 140
CandidateMenu ==
    { Candidate(FALSE, FALSE, Song(140)),
      Candidate(FALSE, FALSE, [Song(140) EXCEPT !.instrumentalness = 90]),
      Candidate(TRUE,  FALSE, Song(140)),
      Candidate(FALSE, TRUE,  Song(140)),
      Candidate(FALSE, FALSE, NoFeatures),
      Candidate(TRUE,  FALSE, NoFeatures),
      Candidate(FALSE, FALSE, [Song(140) EXCEPT !.duration_ms = 600000]),
      Candidate(FALSE, FALSE, [Song(140) EXCEPT !.speechiness = 66]),
      Candidate(FALSE, FALSE, [Song(140) EXCEPT !.energy = 3]),
      Candidate(FALSE, FALSE, Song(175)) }

\* the tempo targets and, for each, the candidate tempos around both windows
TempoTargets == 40..220
TempoProbes(T) == {T - 29, T - 28, T + 28, T + 29, 31, 32, 228, 229, 165, 175}

InitFilter ==
    /\ cache = NoCache
    /\ heroCache = NoHeroes
    /\ NormOff
    /\ pc = "off"
    /\ NoCall
    /\ lookups = <<>>
    /\ XOff
    /\ fpc = "start"
    /\ \/ /\ fTempo = 140
          /\ fPool \in SeqsUpTo(CandidateMenu, MaxPool)
       \/ /\ fTempo \in TempoTargets
          /\ \E tempo \in TempoProbes(fTempo) :
                fPool = <<Candidate(FALSE, FALSE, Song(tempo))>>
    /\ fAns0 = NoAnswers
    /\ fAns1 = NoAnswers
    /\ fOut0 = {}
    /\ fOut1 = {}
    /\ fOut2 = {}

\* the positions of the pool the filter keeps
KeptPositions(pool, vocals_required, target_tempo, ans) ==
    {i \in 1..Len(pool) :
        KeptBy(pool[i].sfxTitle, pool[i].feat, vocals_required, target_tempo, ans)}

\* line 505: filtered = _audio_feature_filter(sp, bag, params)
FilterStage0 ==
    /\ fpc = "start"
    /\ \E metaOk \in BOOLEAN, featsOk \in BOOLEAN :
         /\ fAns0' = Answers(metaOk, featsOk)
         /\ fOut0' = KeptPositions(fPool, TRUE, fTempo, Answers(metaOk, featsOk))
    /\ fpc' = "stage0"
    /\ UNCHANGED <<cache, ndrv, pvars, lookups, xvars, fPool, fTempo, fAns1, fOut1, fOut2>>

\* lines 510-513: the re-run with vocals_required = False
FilterStage1 ==
    /\ fpc = "stage0"
    /\ \E metaOk \in BOOLEAN, featsOk \in BOOLEAN :
         /\ fAns1' = Answers(metaOk, featsOk)
         /\ fOut1' = KeptPositions(fPool, FALSE, fTempo, Answers(metaOk, featsOk))
    /\ fpc' = "stage1"
    /\ UNCHANGED <<cache, ndrv, pvars, lookups, xvars, fPool, fTempo, fAns0, fOut0, fOut2>>

\* line 517: [u for u in bag if not _looks_like_sfx(u)]
FilterStage2 ==
    /\ fpc = "stage1"
    /\ fOut2' = {i \in 1..Len(fPool) : ~fPool[i].sfxUri}
    /\ fpc' = "stage2"
    /\ UNCHANGED <<cache, ndrv, pvars, lookups, xvars, fPool, fTempo, fAns0, fAns1, fOut0, fOut1>>

NextFilter == FilterStage0 \/ FilterStage1 \/ FilterStage2

SpecFilter == InitFilter /\ [][NextFilter]_vars

\* the feature tests other than the tempo test let the entry pass
OtherTestsPass(f, vocals_required) ==
    /\ f.duration_ms < 10 * 60 * 1000
    /\ f.speechiness < 66
    /\ ~(vocals_required /\ f.instrumentalness >= 85)
    /\ f.energy > 3

\* position i of the pool is one the tempo test alone decides at stage 0
TempoDecides(i) ==
    /\ fpc \in {"stage0", "stage1", "stage2"}
    /\ fAns0.featsOk
    /\ ~(fAns0.metaOk /\ fPool[i].sfxTitle)
    /\ fPool[i].feat.present
    /\ OtherTestsPass(fPool[i].feat, TRUE)

(***************************************************************************)
(* C11: for one pool and the same metadata/feature answers, the survivors  *)
(* of the strict filter are among the survivors of the re-run with vocals  *)
(* not required, which are among the survivors of the last resort.         *)
(***************************************************************************)
C11_StagesWiden ==
    (fpc = "stage2" /\ fAns0 = fAns1) => (fOut0 \subseteq fOut1 /\ fOut1 \subseteq fOut2)

(***************************************************************************)
(* C26: the last resort enforces the title/album heuristic and nothing     *)
(* else: its survivors are exactly the candidates whose title and album    *)
(* match no block term.                                                    *)
(***************************************************************************)
C26_LastResortByTitle ==
    fpc = "stage2" => fOut2 = {i \in 1..Len(fPool) : ~fPool[i].sfxTitle}

(***************************************************************************)
(* C13 as stated: a candidate with feature data that passes the other      *)
(* feature tests is excluded exactly when its tempo is outside             *)
(* [T - 28, T + 28], for every tempo target T in 40..220.                  *)
(***************************************************************************)
C13_TempoWindow28 ==
    \A i \in 1..Len(fPool) :
        TempoDecides(i) =>
            (i \notin fOut0 <=> \/ fPool[i].feat.tempo < fTempo - 28
                                \/ fPool[i].feat.tempo > fTempo + 28)

(***************************************************************************)
(* C13 as amended: such a candidate is excluded exactly when its tempo is  *)
(* outside [max(40, T - 20) - 8, min(220, T + 20) + 8]; for T in 60..200   *)
(* that is [T - 28, T + 28].                                               *)
(***************************************************************************)
C13_TempoWindowClamped ==
    \A i \in 1..Len(fPool) :
        TempoDecides(i) =>
            /\ i \notin fOut0 <=> \/ fPool[i].feat.tempo < Max(40, fTempo - 20) - 8
                                  \/ fPool[i].feat.tempo > Min(220, fTempo + 20) + 8
            /\ fTempo \in 60..200 =>
                  (i \notin fOut0 <=> \/ fPool[i].feat.tempo < fTempo - 28
                                      \/ fPool[i].feat.tempo > fTempo + 28)

C13_Witness ==
    /\ fTempo = 140
    /\ Len(fPool) = 1
    /\ TempoDecides(1)
    /\ fPool[1].feat.tempo = 175
    /\ fOut0 = {}

(***************************************************************************)
(* C19: a candidate without an audio-features entry, or any candidate when *)
(* the feature lookup fails, is removed by the filter only if the          *)
(* title/album heuristic removes it.                                       *)
(***************************************************************************)
C19_MissingFeaturesKept ==
    /\ fpc \in {"stage0", "stage1", "stage2"} =>
          \A i \in 1..Len(fPool) :
              (~fPool[i].feat.present \/ ~fAns0.featsOk) =>
                  (i \notin fOut0 => fAns0.metaOk /\ fPool[i].sfxTitle)
    /\ fpc \in {"stage1", "stage2"} =>
          \A i \in 1..Len(fPool) :
              (~fPool[i].feat.present \/ ~fAns1.featsOk) =>
                  (i \notin fOut1 => fAns1.metaOk /\ fPool[i].sfxTitle)

C19_Witness ==
    /\ fpc = "stage0"
    /\ fAns0.featsOk
    /\ Len(fPool) = 2
    /\ ~fPool[1].feat.present /\ ~fPool[1].sfxTitle
    /\ fPool[2].feat.present /\ fPool[2].feat.energy <= 3
    /\ fOut0 = {1}

(***************************************************************************)
(* C7: _normalize_genre_list returns at most 5 entries, no entry twice,    *)
(* and every entry is a member of the vocabulary in effect for the call.   *)
(***************************************************************************)
C7_NormalizeBounded ==
    /\ npc \in {"once", "twice"} =>
         /\ Len(nOut) <= 5
         /\ NoDup(nOut)
         /\ Range(nOut) \subseteq nAllowed
    /\ npc = "twice" =>
         /\ Len(nOut2) <= 5
         /\ NoDup(nOut2)
         /\ Range(nOut2) \subseteq cache.genres

C7_Witness == npc = "once" /\ Len(ValidTokens) > 5 /\ Len(nOut) = 5

(***************************************************************************)
(* C8: the input ["lo-fi", "Hip Hop!!"], against a vocabulary containing   *)
(* chillhop, hip-hop and pop, normalizes to exactly                        *)
(* ["chillhop", "hip-hop"].                                                *)
(***************************************************************************)
C8_HipHopFolded ==
    ( /\ npc = "once"
      /\ nInput = ListInput(<<StrItem(S_lofi), StrItem(S_HipHop)>>)
      /\ {"chillhop", "hip-hop", "pop"} \subseteq nAllowed )
    => nOut = <<"chillhop", "hip-hop">>

(***************************************************************************)
(* C9 as stated: whenever the vocabulary in effect is non-empty, the       *)
(* normalizer returns a non-empty list.                                    *)
(***************************************************************************)
C9_NonEmptyForAnyVocabulary ==
    (npc = "once" /\ nAllowed # {}) => nOut # <<>>

(***************************************************************************)
(* C9 as amended: whenever the vocabulary in effect contains at least one  *)
(* of the seven default genres of the normalizer, the normalizer returns   *)
(* a non-empty list, also for inputs without any vocabulary token.         *)
(***************************************************************************)
C9_NonEmptyWhenDefaultAvailable ==
    (npc = "once" /\ nAllowed \cap Range(NormalizeDefaults) # {}) => nOut # <<>>

C9_Witness ==
    /\ npc = "once"
    /\ ValidTokens = <<>>
    /\ InputTokens(nInput) # <<>>
    /\ nAllowed \cap Range(NormalizeDefaults) # {}
    /\ nOut # <<>>

(***************************************************************************)
(* C10: normalization is idempotent: the output of the normalizer, fed     *)
(* back into it under the same vocabulary, gives the same set of genres.   *)
(***************************************************************************)
C10_Idempotent ==
    npc = "twice" => Range(nOut2) = Range(nOut)

C10_Witness ==
    /\ npc = "twice"
    /\ Len(nOut) >= 2
    /\ nOut # InputTokens(nInput)
    /\ nOut2 = nOut

====
